---- MODULE Spec2Model ----
(***************************************************************************)
(* A model of fastbu's cluster layer: the membership service               *)
(* (src/src/cluster.rs: FastbuCluster), the cluster-aware cache            *)
(* (src/src/cluster_cache.rs: ClusterCache) and the local cache store      *)
(* (src/src/cache.rs: FastbuCache, src/src/storage.rs: Storage).           *)
(*                                                                         *)
(* Strings are sequences of bytes.  A Node is its identity (id, host,      *)
(* port, api_port): Node's Hash implementation (cluster.rs:62-70) hashes   *)
(* exactly these four fields, so they alone decide the ring position.      *)
(***************************************************************************)
EXTENDS Integers, Sequences, FiniteSets, TLC

(***************************************************************************)
(* Bounds of the model.                                                    *)
(***************************************************************************)
\* the longest hash ring the membership operations are explored to
MaxRing == 3
\* the number of ClusterCache calls (insert / get) explored
MaxCalls == 2
\* the number of messages explored waiting in a Message Processor's channel
MaxChan == 1
\* the number of concurrent tasks explored on one node's ring and registry
MaxTasks == 3
\* the number of messages explored waiting in the channel of a node that sends
\* to itself
MaxQueue == 2
\* calls made on a FastbuCache on its own
MaxStoreCalls == 3

(***************************************************************************)
(* Program constants.                                                      *)
(***************************************************************************)
\* the size of the listener's first read buffer
SmallBuf == 64
\* the capacity of the Message Processor's channel
ChannelCap == 100
\* a length no stream of the model reaches: stands for every length of 65536 or more
Huge == 256 * 256

\* Option::None where a string may stand: no string of bytes holds -1
None == <<-1>>

(***************************************************************************)
(* Nodes.  NA and NB are the Nodes of the two modelled processes, NX is a  *)
(* peer that is not a process of the model (any program may answer at its  *)
(* address), NB2 carries NB's id at another port.                          *)
(***************************************************************************)
NA  == [id |-> <<97>>,  host |-> <<49>>, port |-> 1, api_port |-> 5]
NB  == [id |-> <<98>>,  host |-> <<49>>, port |-> 2, api_port |-> 1]
NX  == [id |-> <<120>>, host |-> <<50>>, port |-> 3, api_port |-> 6]
NB2 == [id |-> <<98>>,  host |-> <<49>>, port |-> 4, api_port |-> 1]

NodeUniverse == {NA, NB, NX, NB2}

\* keys: one before every node position, one on a node's position, one between
\* two nodes, one behind the last node (its owner is found by wrapping around)
Keys == {<<109>>, <<107>>, <<111>>, <<105>>}
\* a key that starts with the literal test and ends with the bytes of a frame
\* (a length of four, then the four bytes of Ping)
TestKey == <<116, 101, 115, 116, 0, 0, 0, 4, 0, 0, 0, 0>>
\* every key a store of the model may be asked for
StoreKeys == Keys \cup {TestKey}
Values == {<<117>>, <<118>>}

RECURSIVE ByteSum(_)
ByteSum(s) == IF s = <<>> THEN 0 ELSE Head(s) + ByteSum(Tail(s))

(***************************************************************************)
(* The position of a node on the ring: a pure function of id, host, port   *)
(* and api_port, as Node's Hash implementation feeds exactly these to the  *)
(* hasher.  The stand-in maps into a hash space of 16 positions and is     *)
(* injective on NodeUniverse.                                              *)
(***************************************************************************)
NodeHash(n) ==
    (ByteSum(n.id) * 3 + ByteSum(n.host) * 5 + n.port * 7 + n.api_port) % 16

\* the position of a key: a pure function of the key's bytes
KeyHash(k) == (ByteSum(k) * 5 + Len(k)) % 16

(***************************************************************************)
(* Sequences of bytes.                                                     *)
(***************************************************************************)
Take(s, n) == SubSeq(s, 1, n)
Drop(s, n) == SubSeq(s, n + 1, Len(s))
Min(a, b) == IF a < b THEN a ELSE b
StartsWith(s, pre) == Len(s) >= Len(pre) /\ Take(s, Len(pre)) = pre

\* str::trim: leading and trailing ASCII white space removed
IsSpace(b) == b \in {9, 10, 11, 12, 13, 32}
RECURSIVE TrimStart(_)
TrimStart(s) == IF s # <<>> /\ IsSpace(Head(s)) THEN TrimStart(Tail(s)) ELSE s
RECURSIVE TrimEnd(_)
TrimEnd(s) ==
    IF s # <<>> /\ IsSpace(s[Len(s)]) THEN TrimEnd(Take(s, Len(s) - 1)) ELSE s
Trim(s) == TrimEnd(TrimStart(s))

\* the bytes of the literals of the direct-fetch protocol
GetMarker == <<71, 69, 84, 58>>
FoundPrefix == <<70, 79, 85, 78, 68, 58>>
NotFound == <<78, 79, 84, 95, 70, 79, 85, 78, 68>>
TestPrefix == <<116, 101, 115, 116>>
ValueForPrefix == <<118, 97, 108, 117, 101, 95, 102, 111, 114, 95>>

(***************************************************************************)
(* The wire codec: bincode's fixed-width little-endian encoding of Node    *)
(* and ClusterMessage, framed by a 4-byte big-endian length.               *)
(***************************************************************************)
U16LE(n) == <<n % 256, n \div 256>>
U32LE(n) == <<n % 256, n \div 256, 0, 0>>
U64LE(n) == <<n % 256, n \div 256, 0, 0, 0, 0, 0, 0>>
U32BE(n) == <<0, 0, n \div 256, n % 256>>

\* the value of a length field; Huge stands for every value of 65536 or more
U32BEVal(b) == IF b[1] # 0 \/ b[2] # 0 THEN Huge ELSE b[3] * 256 + b[4]
U64LEVal(b) == IF \E i \in 3..8 : b[i] # 0 THEN Huge ELSE b[1] + b[2] * 256

EncStr(s) == U64LE(Len(s)) \o s

\* a Node with an empty metadata map
EncNode(n) ==
    EncStr(n.id) \o EncStr(n.host) \o U16LE(n.port) \o U16LE(n.api_port) \o U64LE(0)

\* ClusterMessage: every message of the model has the fields type, key, value
Msg(t, k, v) == [type |-> t, key |-> k, value |-> v]
Ping == Msg("Ping", <<>>, None)
Pong == Msg("Pong", <<>>, None)
FetchRequest(k) == Msg("FetchRequest", k, None)
FetchResponse(k, v) == Msg("FetchResponse", k, v)
KeyUpdated(k, v) == Msg("KeyUpdated", k, v)
KeyInvalidated(k) == Msg("KeyInvalidated", k, None)

EncMsg(m) ==
    CASE m.type = "Ping"           -> U32LE(0)
      [] m.type = "Pong"           -> U32LE(1)
      [] m.type = "FetchRequest"   -> U32LE(2) \o EncStr(m.key)
      [] m.type = "FetchResponse"  ->
            U32LE(3) \o EncStr(m.key)
                \o (IF m.value = None THEN <<0>> ELSE <<1>> \o EncStr(m.value))
      [] m.type = "KeyUpdated"     -> U32LE(4) \o EncStr(m.key) \o EncStr(m.value)
      [] m.type = "KeyInvalidated" -> U32LE(5) \o EncStr(m.key)

\* the frame send_message and the handshake write: length, then payload
Frame(payload) == U32BE(Len(payload)) \o payload

DecFail == [ok |-> FALSE]

\* a String: an 8-byte length, then that many bytes of UTF-8
DecStr(b) ==
    IF Len(b) < 8 THEN DecFail
    ELSE LET n == U64LEVal(Take(b, 8))
         IN  IF Len(b) - 8 < n THEN DecFail
             ELSE LET s == SubSeq(b, 9, 8 + n)
                  IN  IF \E i \in 1..n : s[i] >= 128 THEN DecFail
                      ELSE [ok |-> TRUE, val |-> s, rest |-> Drop(b, 8 + n)]

\* c entries of a HashMap<String, String>
RECURSIVE DecMapOk(_, _)
DecMapOk(b, c) ==
    IF c = 0 THEN TRUE
    ELSE IF c * 16 > Len(b) THEN FALSE
    ELSE LET k == DecStr(b)
         IN  /\ k.ok
             /\ LET v == DecStr(k.rest) IN v.ok /\ DecMapOk(v.rest, c - 1)

\* bincode::deserialize::<Node>: trailing bytes are allowed
DecNode(b) ==
    LET i == DecStr(b)
    IN  IF ~i.ok THEN DecFail
        ELSE LET h == DecStr(i.rest)
             IN  IF ~h.ok \/ Len(h.rest) < 12 THEN DecFail
                 ELSE LET r == h.rest
                      IN  IF ~DecMapOk(Drop(r, 12), U64LEVal(SubSeq(r, 5, 12)))
                          THEN DecFail
                          ELSE [ok |-> TRUE,
                                val |-> [id |-> i.val, host |-> h.val,
                                         port |-> r[1] + r[2] * 256,
                                         api_port |-> r[3] + r[4] * 256]]

\* bincode::deserialize::<ClusterMessage>: trailing bytes are allowed
DecMsg(b) ==
    IF Len(b) < 4 \/ b[2] # 0 \/ b[3] # 0 \/ b[4] # 0 \/ b[1] > 5 THEN DecFail
    ELSE IF b[1] = 0 THEN [ok |-> TRUE, val |-> Ping]
    ELSE IF b[1] = 1 THEN [ok |-> TRUE, val |-> Pong]
    ELSE LET k == DecStr(Drop(b, 4))
         IN  IF ~k.ok THEN DecFail
             ELSE IF b[1] = 2 THEN [ok |-> TRUE, val |-> FetchRequest(k.val)]
             ELSE IF b[1] = 5 THEN [ok |-> TRUE, val |-> KeyInvalidated(k.val)]
             ELSE IF b[1] = 4
                  THEN LET v == DecStr(k.rest)
                       IN  IF v.ok THEN [ok |-> TRUE, val |-> KeyUpdated(k.val, v.val)]
                           ELSE DecFail
             ELSE IF k.rest = <<>> \/ k.rest[1] > 1 THEN DecFail
             ELSE IF k.rest[1] = 0 THEN [ok |-> TRUE, val |-> FetchResponse(k.val, None)]
             ELSE LET v == DecStr(Tail(k.rest))
                  IN  IF v.ok THEN [ok |-> TRUE, val |-> FetchResponse(k.val, v.val)]
                      ELSE DecFail

(***************************************************************************)
(* The hash ring (hashring::HashRing<Node>): a vector of (key, node)       *)
(* entries kept sorted by key.  A node added twice is on the ring twice.   *)
(***************************************************************************)
\* Option::None where a Node may stand: no Node has this id
NoNode == [id |-> <<-1>>, host |-> <<>>, port |-> 0, api_port |-> 0]

RingEntry(n) == [key |-> NodeHash(n), node |-> n]

\* HashRing::add without the sort: the entry stays where it was pushed
RingAddUnsorted(ring, n) == Append(ring, RingEntry(n))

\* HashRing::add pushes the entry and sorts the vector (a stable sort by key)
RingAdd(ring, n) ==
    LET e == RingEntry(n)
        i == Cardinality({j \in 1..Len(ring) : ring[j].key <= e.key})
    IN  Take(ring, i) \o <<e>> \o Drop(ring, i)

\* HashRing::remove taking the first entry of the ring for the entry found
RingRemoveFirst(ring, n) ==
    IF \A j \in 1..Len(ring) : ring[j].key # NodeHash(n) THEN ring ELSE Tail(ring)

\* HashRing::remove: a binary search for the node's key removes the entry found
RingRemove(ring, n) ==
    LET hits == {j \in 1..Len(ring) : ring[j].key = NodeHash(n)}
    IN  IF hits = {} THEN ring
        ELSE LET j == CHOOSE x \in hits : TRUE
             IN  Take(ring, j - 1) \o Drop(ring, j)

\* HashRing::get: the entry at the key's hash, else the first entry behind it,
\* else (behind the last entry) the first entry of the ring
RingGet(ring, k) ==
    LET h == KeyHash(k)
        hits == {j \in 1..Len(ring) : ring[j].key = h}
        below == Cardinality({j \in 1..Len(ring) : ring[j].key < h})
    IN  IF ring = <<>> THEN NoNode
        ELSE IF hits # {} THEN ring[CHOOSE x \in hits : TRUE].node
        ELSE IF below = Len(ring) THEN ring[1].node
        ELSE ring[below + 1].node

RingNodes(ring) == {ring[j].node : j \in 1..Len(ring)}

(***************************************************************************)
(* The node registry (HashMap<String, Node>): at most one Node per id.     *)
(***************************************************************************)
RegInsert(reg, n) == {m \in reg : m.id # n.id} \cup {n}
RegRemove(reg, id) == {m \in reg : m.id # id}

(***************************************************************************)
(* What the listener's connection handler does with a connection whose     *)
(* client writes `stream` and then waits, when the handler's first read    *)
(* returns n bytes (1 <= n <= 64, n <= Len(stream)).                       *)
(***************************************************************************)
NoMsg == Msg("", <<>>, None)
Outcome(kind, node, msg, key) ==
    [kind |-> kind, node |-> node, msg |-> msg, key |-> key]

ServeOutcome(stream, n) ==
    LET small == Take(stream, n)
        rest == Drop(stream, n)
    IN  IF n > 4 /\ Take(small, 4) = GetMarker
        THEN Outcome("direct", NoNode, NoMsg, Trim(Drop(small, 4)))
        \* the n bytes of the first read are not looked at again: the length is
        \* read from the bytes that follow them
        ELSE IF Len(rest) < 4 THEN Outcome("hang", NoNode, NoMsg, <<>>)
        ELSE LET len == U32BEVal(Take(rest, 4))
             IN  IF Len(rest) - 4 < len THEN Outcome("hang", NoNode, NoMsg, <<>>)
                 ELSE LET data == SubSeq(rest, 5, 4 + len)
                          node == DecNode(data)
                          msg == DecMsg(data)
                      IN  IF node.ok THEN Outcome("handshake", node.val, NoMsg, <<>>)
                          ELSE IF msg.ok THEN Outcome("dispatch", NoNode, msg.val, <<>>)
                          ELSE Outcome("close", NoNode, NoMsg, <<>>)

\* every outcome the first read's size allows
ServeOutcomes(stream) ==
    {ServeOutcome(stream, n) : n \in 1..Min(SmallBuf, Len(stream))}

\* the direct-fetch answer of the handler
DirectResponse(key) ==
    IF StartsWith(key, TestPrefix) THEN FoundPrefix \o ValueForPrefix \o key
    ELSE NotFound

(***************************************************************************)
(* The processes of the model: each runs the program with its own          *)
(* ClusterConfig, FastbuCluster and ClusterCache.                          *)
(***************************************************************************)
Procs == {"A", "B"}

\* config.node
LocalNode(p) == IF p = "A" THEN NA ELSE NB

\* Node::addr: the address of node-to-node communication
AddrOf(n) == <<n.host, n.port>>

\* the process whose listener binds the address, if any
ProcsAt(addr) == {q \in Procs : AddrOf(LocalNode(q)) = addr}

\* the sender Node the listener makes up for a connection from an address no
\* registry entry has (a client's own port is not its listening port)
Placeholder == [id |-> <<117, 117, 105, 100>>, host |-> <<49>>, port |-> 0, api_port |-> 0]

VARIABLES
    seeds,           \* config.cluster.seeds of each process
    hash_ring,       \* FastbuCluster.hash_ring
    nodes,           \* FastbuCluster.nodes, the node registry
    peers,           \* FastbuCluster.peers
    message_sender,  \* FastbuCluster.message_sender is Some
    listening,       \* the listener is bound and its accept loop runs
    chan,            \* the Message Processor's channel: <<sender, message>>
    response,        \* the FetchResponse the Message Processor built last
    cache,           \* FastbuCache: the in-memory map of ClusterCache.local_cache
    initpc,          \* where FastbuCluster::initialize of each process is
    todo,            \* initialize: the peers it has not contacted yet
    call,            \* the ClusterCache call each process is serving, if any
    conn,            \* send_message: what the peer did with the connection
    calls,           \* history: the number of ClusterCache calls made
    last_call,       \* history: the call that returned last
    last_ok,         \* history: per key, the value of the last insert that returned Ok
    hist,            \* history: the membership operations that completed
    tasks,           \* the concurrent membership tasks of one node and where each is
    locks,           \* that node's RwLocks: who holds hash_ring and nodes
    disk,            \* Storage: per key, the entries appended to the key's file
    poisoned,        \* FastbuCache.data: the Mutex is poisoned
    virtual_nodes    \* ClusterSettings.virtual_nodes of each process's configuration

vars == <<seeds, hash_ring, nodes, peers, message_sender, listening, chan, response, cache,
          initpc, todo, call, conn, calls, last_call, last_ok, hist, tasks, locks, disk,
          poisoned, virtual_nodes>>

Idle == [op |-> "none", key |-> <<>>, value |-> None, pc |-> "idle", owner |-> NoNode,
         target |-> NoNode, rest |-> {}, solo |-> FALSE, reach |-> FALSE]
NoConn == "none"
NoCall == [proc |-> "", op |-> "none", key |-> <<>>, value |-> None, res |-> "",
           owner |-> NoNode, sendres |-> "", saved |-> "", solo |-> FALSE,
           reach |-> FALSE]

\* the tasks that work on one node's ring and registry at the same time
TaskIds == 1..MaxTasks
NoTask == [kind |-> "none", node |-> NoNode, pc |-> "none"]
\* per lock, the tasks that hold a write guard and those that hold a read guard
NoLocks == [ring_w |-> {}, ring_r |-> {}, nodes_w |-> {}, nodes_r |-> {}]

\* default_virtual_nodes, the value of a configuration file that names none
DefaultVirtualNodes == 10

NewClusterOf(sds, vn) ==
    \* FastbuCluster::new: the local node is put on the ring; the registry,
    \* the peers and the message sender start empty
    /\ seeds = sds
    /\ virtual_nodes = vn
    /\ hash_ring = [p \in Procs |-> RingAdd(<<>>, LocalNode(p))]
    /\ nodes = [p \in Procs |-> {}]
    /\ peers = [p \in Procs |-> <<>>]
    /\ message_sender = [p \in Procs |-> FALSE]
    /\ listening = [p \in Procs |-> FALSE]
    /\ chan = [p \in Procs |-> <<>>]
    /\ response = [p \in Procs |-> NoMsg]
    /\ cache = [p \in Procs |-> [k \in StoreKeys |-> None]]
    /\ initpc = [p \in Procs |-> "new"]
    /\ todo = [p \in Procs |-> <<>>]
    /\ call = [p \in Procs |-> Idle]
    /\ conn = [p \in Procs |-> NoConn]
    /\ calls = 0
    /\ last_call = NoCall
    /\ last_ok = [p \in Procs |-> [k \in StoreKeys |-> None]]
    /\ hist = <<>>
    /\ tasks = [i \in TaskIds |-> NoTask]
    /\ locks = NoLocks
    /\ disk = [p \in Procs |-> [k \in StoreKeys |-> <<>>]]
    /\ poisoned = [p \in Procs |-> FALSE]

NewCluster(sds) == NewClusterOf(sds, [p \in Procs |-> DefaultVirtualNodes])

\* A has no seed; B's seed is A's cluster address
Init == NewCluster([p \in Procs |-> IF p = "A" THEN <<>> ELSE <<AddrOf(NA)>>])

(***************************************************************************)
(* Membership.                                                             *)
(***************************************************************************)
\* history: a completed membership operation with the ring before and after
Op(p, kind, n, before, after) ==
    [proc |-> p, kind |-> kind, node |-> n, before |-> before, after |-> after]
Record(h, e) == IF Len(h) < 2 THEN Append(h, e) ELSE <<h[2], e>>

\* get_responsible_node that answers a seed node when the ring is empty
GetResponsibleOrSeed(ring, k) == IF ring = <<>> THEN NX ELSE RingGet(ring, k)

\* get_responsible_node: HashRing::get on the key
GetResponsibleNode(ring, k) == RingGet(ring, k)

\* handle_node_joined: the node is added to the ring, then to the registry
JoinedRing(ring, n) == RingAdd(ring, n)
JoinedNodes(reg, n) == RegInsert(reg, n)

\* handle_node_left that takes the node from the registry only
LeftRingKept(ring, n) == ring

\* handle_node_left: the node is removed from the ring, then from the registry
LeftRing(ring, n) == RingRemove(ring, n)
LeftNodes(reg, n) == RegRemove(reg, n.id)

HandleNodeJoined(p, n) ==
    /\ Len(hash_ring[p]) < MaxRing
    /\ hash_ring' = [hash_ring EXCEPT ![p] = JoinedRing(@, n)]
    /\ nodes' = [nodes EXCEPT ![p] = JoinedNodes(@, n)]
    /\ hist' = Record(hist, Op(p, "joined", n, hash_ring[p], hash_ring'[p]))
    /\ UNCHANGED <<disk, poisoned, tasks, locks, seeds, virtual_nodes, response, peers, message_sender, listening, chan, cache, initpc,
                   todo, call, conn, calls, last_call, last_ok>>

HandleNodeLeft(p, n) ==
    /\ hash_ring' = [hash_ring EXCEPT ![p] = LeftRing(@, n)]
    /\ nodes' = [nodes EXCEPT ![p] = LeftNodes(@, n)]
    /\ hist' = Record(hist, Op(p, "left", n, hash_ring[p], hash_ring'[p]))
    /\ UNCHANGED <<disk, poisoned, tasks, locks, seeds, virtual_nodes, response, peers, message_sender, listening, chan, cache, initpc,
                   todo, call, conn, calls, last_call, last_ok>>

(***************************************************************************)
(* The listener (start_message_listener): the connection handler's effect  *)
(* on the process q that accepted the connection, and its answer.          *)
(***************************************************************************)
Served(q, o) ==
    /\ o.kind = "handshake" => Len(hash_ring[q]) < MaxRing
    /\ o.kind = "dispatch" => Len(chan[q]) < Min(MaxChan, ChannelCap)
    \* a frame that decodes as a Node registers it: ring first, then registry
    /\ hash_ring' = IF o.kind = "handshake"
                    THEN [hash_ring EXCEPT ![q] = RingAdd(@, o.node)]
                    ELSE hash_ring
    /\ nodes' = IF o.kind = "handshake"
                THEN [nodes EXCEPT ![q] = RegInsert(@, o.node)]
                ELSE nodes
    /\ hist' = IF o.kind = "handshake"
               THEN Record(hist, Op(q, "handshake", o.node, hash_ring[q], hash_ring'[q]))
               ELSE hist
    \* any other frame that decodes as a ClusterMessage goes to the processor
    /\ chan' = IF o.kind = "dispatch"
               THEN [chan EXCEPT ![q] = Append(@, <<Placeholder, o.msg>>)]
               ELSE chan

\* the bytes the handler writes before it closes the connection; a handler
\* that hangs writes nothing and leaves the connection open
Silent == <<-2>>
ReplyBytes(q, o) ==
    CASE o.kind = "handshake" -> Frame(EncNode(LocalNode(q)))
      [] o.kind = "dispatch"  -> <<1>>
      [] o.kind = "direct"    -> DirectResponse(o.key)
      [] o.kind = "close"     -> <<>>
      [] o.kind = "hang"      -> Silent

\* a client that is not a process of the model has written a stream to q's
\* listener and the connection handler made o of it
EnvConnect(q, o) ==
    /\ listening[q]
    /\ o.kind \in {"handshake", "dispatch", "direct"}
    /\ Served(q, o)
    /\ UNCHANGED <<disk, poisoned, tasks, locks, seeds, virtual_nodes, response, peers, message_sender, listening, cache, initpc, todo,
                   call, conn, calls, last_call, last_ok>>

(***************************************************************************)
(* The Message Processor (start_message_processor): one message at a time, *)
(* in the order of the channel.  No arm touches the cache, the ring or the *)
(* registry; the FetchRequest arm answers None to the sender's address.    *)
(***************************************************************************)
\* the FetchRequest arm: the task it spawns builds the response and writes it
\* to the sender's address
FetchReply(k) == FetchResponse(k, None)

\* a receive that hands out the message sent last
ReceivedNewest(ch) == ch[Len(ch)]

\* rx.recv(): the message that has waited longest
Received(ch) == Head(ch)

Process(q) ==
    /\ message_sender[q]
    /\ chan[q] # <<>>
    /\ chan' = [chan EXCEPT ![q] = Tail(@)]
    /\ LET m == Received(chan[q])[2]
       IN  response' = IF m.type = "FetchRequest"
                       THEN [response EXCEPT ![q] = FetchReply(m.key)]
                       ELSE response
    /\ UNCHANGED <<disk, poisoned, tasks, locks, seeds, virtual_nodes, hash_ring, nodes, peers, message_sender, listening, cache,
                   initpc, todo, call, conn, calls, last_call, last_ok, hist>>

(***************************************************************************)
(* FastbuCluster::initialize.                                              *)
(***************************************************************************)
\* add_peer for every seed: a peer is pushed unless the list holds it
RECURSIVE AddPeers(_, _)
AddPeers(ps, sds) ==
    IF sds = <<>> THEN ps
    ELSE AddPeers(IF \E i \in 1..Len(ps) : ps[i] = Head(sds) THEN ps
                  ELSE Append(ps, Head(sds)), Tail(sds))

\* an initialize that binds the listener before the processor's channel exists
SenderNotYetSet(sender) == sender

\* start_message_processor runs first and cannot fail: it creates the channel,
\* stores its sender and spawns the consumer
SenderSet(sender) == TRUE

\* the processor starts, the listener binds, the local node is registered and
\* the seeds become peers; a failed bind returns InitializationError at once
InitStart(p, bound) ==
    /\ initpc[p] = "new"
    /\ call[p] = Idle
    /\ message_sender' = [message_sender EXCEPT ![p] = SenderSet(@)]
    /\ IF bound
       THEN /\ listening' = [listening EXCEPT ![p] = TRUE]
            /\ nodes' = [nodes EXCEPT ![p] = RegInsert(@, LocalNode(p))]
            /\ peers' = [peers EXCEPT ![p] = AddPeers(@, seeds[p])]
            /\ todo' = [todo EXCEPT ![p] = peers'[p]]
            /\ initpc' = [initpc EXCEPT ![p] = "peers"]
       ELSE /\ initpc' = [initpc EXCEPT ![p] = "failed"]
            /\ UNCHANGED <<listening, nodes, peers, todo>>
    /\ UNCHANGED <<disk, poisoned, tasks, locks, seeds, virtual_nodes, response, hash_ring, chan, cache, call, conn, calls, last_call,
                   last_ok, hist>>

\* the handshake read: a length, that many bytes, a Node
ReadPeerNode(bytes) ==
    IF bytes = Silent \/ Len(bytes) < 4 THEN DecFail
    ELSE IF Len(bytes) - 4 < U32BEVal(Take(bytes, 4)) THEN DecFail
    ELSE DecNode(SubSeq(bytes, 5, 4 + U32BEVal(Take(bytes, 4))))

\* what a peer that is not a process of the model does with the handshake:
\* it refuses the connection, never completes it, accepts and stays silent,
\* closes or answers bytes that are no Node, or answers a Node
Answer(kind, n) == [kind |-> kind, node |-> n]
EnvNodes == {NX, NB2}
PeerAnswers ==
    {Answer(k, NoNode) : k \in {"refused", "unreachable", "silent", "closed"}}
    \cup {Answer("node", n) : n \in EnvNodes}

\* initialize without the timeouts: a peer that never completes the connection
\* or never answers is waited for
SkippedNoTimeout(kind) == kind \in {"refused", "closed"}

\* the connect and the read of the peer's Node are each given 5 seconds; an
\* error and a timeout are logged and the peer is skipped
Skipped(kind) == kind \in {"refused", "unreachable", "silent", "closed"}

\* one peer: connect (5 s), write the local Node, read the peer's (5 s);
\* every failure and timeout is logged and the peer is skipped
InitPeerProc(p, q) ==
    /\ initpc[p] = "peers" /\ todo[p] # <<>>
    /\ ProcsAt(Head(todo[p])) = {q}
    /\ todo' = [todo EXCEPT ![p] = Tail(@)]
    /\ IF ~listening[q]
       THEN UNCHANGED <<hash_ring, nodes, chan, hist>>
       ELSE \E o \in ServeOutcomes(Frame(EncNode(LocalNode(p)))) :
              LET got == ReadPeerNode(ReplyBytes(q, o))
              IN  IF got.ok
                  THEN \* the listener registered p; p joins the peer's Node
                       /\ o.kind = "handshake"
                       /\ Len(hash_ring[q]) < MaxRing /\ Len(hash_ring[p]) < MaxRing
                       /\ hash_ring' = [hash_ring EXCEPT
                              ![q] = RingAdd(@, o.node), ![p] = JoinedRing(@, got.val)]
                       /\ nodes' = [nodes EXCEPT
                              ![q] = RegInsert(@, o.node), ![p] = JoinedNodes(@, got.val)]
                       /\ hist' = Record(hist, Op(p, "joined", got.val, hash_ring[p], hash_ring'[p]))
                       /\ UNCHANGED chan
                  ELSE Served(q, o)
    /\ UNCHANGED <<disk, poisoned, tasks, locks, seeds, virtual_nodes, response, peers, message_sender, listening, cache, initpc, call,
                   conn, calls, last_call, last_ok>>

\* an initialize that joins whatever Node value the failed exchange left
JoinsAnyPeer(kind) == TRUE

\* handle_node_joined is called in one arm only: the peer's Node was read and
\* decoded in time
JoinsPeer(kind) == kind = "node"

InitPeerEnv(p, answer) ==
    /\ initpc[p] = "peers" /\ todo[p] # <<>>
    /\ ProcsAt(Head(todo[p])) = {}
    /\ answer.kind = "node" \/ Skipped(answer.kind)
    /\ todo' = [todo EXCEPT ![p] = Tail(@)]
    /\ IF JoinsPeer(answer.kind)
       THEN /\ hash_ring' = [hash_ring EXCEPT ![p] = JoinedRing(@, answer.node)]
            /\ nodes' = [nodes EXCEPT ![p] = JoinedNodes(@, answer.node)]
            /\ hist' = Record(hist, Op(p, "joined", answer.node, hash_ring[p],
                                       hash_ring'[p]))
       ELSE UNCHANGED <<hash_ring, nodes, hist>>
    /\ UNCHANGED <<disk, poisoned, tasks, locks, seeds, virtual_nodes, response, peers, message_sender, listening, chan, cache, initpc,
                   call, conn, calls, last_call, last_ok>>

\* every peer was tried: initialize returns Ok
InitReturn(p) ==
    /\ initpc[p] = "peers" /\ todo[p] = <<>>
    /\ initpc' = [initpc EXCEPT ![p] = "done"]
    /\ UNCHANGED <<disk, poisoned, tasks, locks, seeds, virtual_nodes, response, hash_ring, nodes, peers, message_sender, listening, chan,
                   cache, todo, call, conn, calls, last_call, last_ok, hist>>

(***************************************************************************)
(* FastbuCache (cache.rs) and ClusterCache (cluster_cache.rs).             *)
(***************************************************************************)
\* an insert that keeps the value a key already has
StoreInsertIfAbsent(c, k, v) == IF c[k] = None THEN [c EXCEPT ![k] = v] ELSE c

\* FastbuCache::insert puts the entry into the in-memory map and then saves it
\* to disk; the result of the save is the result of the insert
StoreInsert(c, k, v) == [c EXCEPT ![k] = v]
StoreResult(persisted) == IF persisted THEN "Ok" ELSE "Err"
\* history: whether the save to disk succeeded
Saved(persisted) == IF persisted THEN "yes" ELSE "no"

\* FastbuCache::get reads the in-memory map
StoreGet(c, k) == c[k]

\* Storage::save opens the key's file for appending and writes the serialized
\* entry; a save that fails leaves the file as it was
DiskSave(d, k, v, persisted) == IF persisted THEN [d EXCEPT ![k] = Append(@, v)] ELSE d

\* a call as it starts: its owner, whether the ring holds the local node alone
\* and whether the owner's listener runs are kept for the history
Begin(p, op, k, v, pc, owner, rest) ==
    [op |-> op, key |-> k, value |-> v, pc |-> pc, owner |-> owner, target |-> owner,
     rest |-> rest,
     solo |-> RingNodes(hash_ring[p]) = {LocalNode(p)},
     reach |-> \E q \in ProcsAt(AddrOf(owner)) : listening[q]]

\* history: a call that returned
Entry(p, c, res, v, sendres, saved) ==
    [proc |-> p, op |-> c.op, key |-> c.key, value |-> v, res |-> res,
     owner |-> c.owner, sendres |-> sendres, saved |-> saved, solo |-> c.solo,
     reach |-> c.reach]

Return(p, e) ==
    /\ call' = [call EXCEPT ![p] = Idle]
    /\ conn' = [conn EXCEPT ![p] = NoConn]
    /\ last_call' = e
    /\ last_ok' = IF e.op = "insert" /\ e.res = "Ok"
                  THEN [last_ok EXCEPT ![p][e.key] = e.value]
                  ELSE last_ok

\* initialize takes the cluster exclusively; a call reads it
CanCall(p) ==
    /\ call[p] = Idle
    /\ initpc[p] # "peers"
    /\ calls < MaxCalls

\* the nodes insert broadcasts KeyUpdated to: the registry without the local id
BroadcastTargets(p) == {n \in nodes[p] : n.id # LocalNode(p).id}

OptRes(v) == IF v = None THEN "None" ELSE "Some"

\* ClusterCache::insert up to its first send_message
InsertCall(p, k, v, persisted) ==
    /\ CanCall(p)
    /\ calls' = calls + 1
    /\ LET owner == GetResponsibleNode(hash_ring[p], k)
       IN  IF owner # NoNode /\ owner.id # LocalNode(p).id
           THEN \* a remote owner: the insert is forwarded
                /\ call' = [call EXCEPT ![p] = Begin(p, "insert", k, v, "fwd", owner, {})]
                /\ UNCHANGED <<cache, disk, conn, last_call, last_ok>>
           ELSE \* no owner, or the local node: the local store takes it
                /\ cache' = [cache EXCEPT ![p] = StoreInsert(@, k, v)]
                /\ disk' = [disk EXCEPT ![p] = DiskSave(@, k, v, persisted)]
                /\ IF owner # NoNode /\ persisted /\ BroadcastTargets(p) # {}
                   THEN /\ call' = [call EXCEPT ![p] =
                              Begin(p, "insert", k, v, "bcast", owner, BroadcastTargets(p))]
                        /\ UNCHANGED <<conn, last_call, last_ok>>
                   ELSE Return(p, Entry(p, Begin(p, "insert", k, v, "", owner, {}),
                                        StoreResult(persisted), v, "none", Saved(persisted)))
    /\ UNCHANGED <<poisoned, tasks, locks, seeds, virtual_nodes, response, hash_ring, nodes, peers, message_sender, listening, chan,
                   initpc, todo, hist>>

\* ClusterCache::get up to its send_message
GetCall(p, k) ==
    /\ CanCall(p)
    /\ calls' = calls + 1
    /\ LET owner == GetResponsibleNode(hash_ring[p], k)
       IN  IF owner # NoNode /\ owner.id # LocalNode(p).id
           THEN /\ call' = [call EXCEPT ![p] = Begin(p, "get", k, None, "fetch", owner, {})]
                /\ UNCHANGED <<conn, last_call, last_ok>>
           ELSE Return(p, Entry(p, Begin(p, "get", k, None, "", owner, {}),
                                OptRes(StoreGet(cache[p], k)), StoreGet(cache[p], k),
                                "none", ""))
    /\ UNCHANGED <<disk, poisoned, tasks, locks, seeds, virtual_nodes, response, hash_ring, nodes, peers, message_sender, listening, chan,
                   cache, initpc, todo, hist>>

\* the message the call sends
CallMessage(c) ==
    IF c.op = "insert" THEN KeyUpdated(c.key, c.value) ELSE FetchRequest(c.key)

\* what send_message makes of the peer's answer: the first byte is the
\* acknowledgment, a closed connection is an error, a silent peer is waited for
AckOf(bytes) ==
    IF bytes = Silent THEN "silent" ELSE IF bytes = <<>> THEN "err" ELSE "ack"

Sending(p) == call[p].pc \in {"fwd", "bcast", "fetch"} /\ conn[p] = NoConn
SendTargets(p) == IF call[p].pc = "bcast" THEN call[p].rest ELSE {call[p].target}

\* send_message to a node whose address is a process of the model: connect,
\* write the frame; the peer's listener handles the connection
SendToProc(p, t, q) ==
    /\ Sending(p) /\ t \in SendTargets(p)
    /\ t.id # LocalNode(p).id
    /\ ProcsAt(AddrOf(t)) = {q}
    /\ call' = [call EXCEPT ![p].target = t, ![p].rest = @ \ {t}]
    /\ IF ~listening[q]
       THEN /\ conn' = [conn EXCEPT ![p] = "err"]
            /\ UNCHANGED <<hash_ring, nodes, chan, hist>>
       ELSE \E o \in ServeOutcomes(Frame(EncMsg(CallMessage(call[p])))) :
              /\ Served(q, o)
              /\ conn' = [conn EXCEPT ![p] = AckOf(ReplyBytes(q, o))]
    /\ UNCHANGED <<disk, poisoned, tasks, locks, seeds, virtual_nodes, response, peers, message_sender, listening, cache, initpc, todo,
                   calls, last_call, last_ok>>

\* send_message to a node at any other address: whatever answers there
\* refuses, closes, acknowledges or stays silent
SendToEnv(p, t, answer) ==
    /\ Sending(p) /\ t \in SendTargets(p)
    /\ t.id # LocalNode(p).id
    /\ ProcsAt(AddrOf(t)) = {}
    /\ call' = [call EXCEPT ![p].target = t, ![p].rest = @ \ {t}]
    /\ conn' = [conn EXCEPT ![p] = answer]
    /\ UNCHANGED <<disk, poisoned, tasks, locks, seeds, virtual_nodes, response, hash_ring, nodes, peers, message_sender, listening, chan,
                   cache, initpc, todo, calls, last_call, last_ok, hist>>

Answered(p) == conn[p] \in {"ack", "err"}

\* a forward that keeps a copy of the value in the local store
ForwardedCacheCopy(c, k, v) == StoreInsert(c, k, v)

\* the Ok arm of the forward returns at once: the local store is not called
ForwardedCache(c, k, v) == c

\* insert, remote owner: an acknowledged send is success; after a failed one
\* the local store takes the value and its result is returned
ForwardOk(p) ==
    /\ call[p].pc = "fwd" /\ conn[p] = "ack"
    /\ cache' = [cache EXCEPT ![p] = ForwardedCache(@, call[p].key, call[p].value)]
    /\ Return(p, Entry(p, call[p], "Ok", call[p].value, "ok", ""))
    /\ UNCHANGED <<disk, poisoned, tasks, locks, seeds, virtual_nodes, response, hash_ring, nodes, peers, message_sender, listening, chan,
                   initpc, todo, calls, hist>>

\* a fallback that only logs the failed send
FallbackDropped(c, k, v) == c
FallbackCache(c, k, v) == StoreInsert(c, k, v)

\* a fallback that hands the failed send's error to the caller
FallbackSendError(persisted) == "Err"

\* the fallback returns the local store's result, not the send's error
FallbackResult(persisted) == StoreResult(persisted)

ForwardFailed(p, persisted) ==
    /\ call[p].pc = "fwd" /\ conn[p] = "err"
    /\ cache' = [cache EXCEPT ![p] = FallbackCache(@, call[p].key, call[p].value)]
    /\ disk' = [disk EXCEPT ![p] = DiskSave(@, call[p].key, call[p].value, persisted)]
    /\ Return(p, Entry(p, call[p], FallbackResult(persisted), call[p].value, "err",
                         Saved(persisted)))
    /\ UNCHANGED <<poisoned, tasks, locks, seeds, virtual_nodes, response, hash_ring, nodes, peers, message_sender, listening, chan,
                   initpc, todo, calls, hist>>

\* insert, local owner: the outcome of a broadcast send is only logged
BroadcastNext(p) ==
    /\ call[p].pc = "bcast" /\ Answered(p)
    /\ IF call[p].rest = {}
       THEN Return(p, Entry(p, call[p], "Ok", call[p].value,
                            IF conn[p] = "ack" THEN "ok" ELSE "err", "yes"))
       ELSE /\ conn' = [conn EXCEPT ![p] = NoConn]
            /\ UNCHANGED <<call, last_call, last_ok>>
    /\ UNCHANGED <<disk, poisoned, tasks, locks, seeds, virtual_nodes, response, hash_ring, nodes, peers, message_sender, listening, chan,
                   cache, initpc, todo, calls, hist>>

\* a get that fetches from the owner after every acknowledged FetchRequest
NeedsDirectAlways(sent, v) == sent

\* the direct fetch follows an acknowledged FetchRequest and a local miss
NeedsDirect(sent, v) == sent /\ v = None

\* get, remote owner: after an acknowledged FetchRequest the local store is
\* read and, on a miss, the direct fetch follows; after a failed one the local
\* store's answer is returned
FetchSent(p) ==
    /\ call[p].pc = "fetch" /\ Answered(p)
    /\ LET v == StoreGet(cache[p], call[p].key)
       IN  IF NeedsDirect(conn[p] = "ack", v)
           THEN /\ call' = [call EXCEPT ![p].pc = "direct"]
                /\ conn' = [conn EXCEPT ![p] = NoConn]
                /\ UNCHANGED <<last_call, last_ok>>
           ELSE Return(p, Entry(p, call[p], OptRes(v), v,
                                IF conn[p] = "ack" THEN "ok" ELSE "err", ""))
    /\ UNCHANGED <<disk, poisoned, tasks, locks, seeds, virtual_nodes, response, hash_ring, nodes, peers, message_sender, listening, chan,
                   cache, initpc, todo, calls, hist>>

\* direct_fetch_from_node parses the answer: FOUND:<value>, else nothing
ParseDirect(bytes) ==
    IF bytes # Silent /\ StartsWith(bytes, FoundPrefix) THEN Drop(bytes, 6) ELSE None

\* the direct fetch: connect (5 s), write GET:<key>, read to the end (5 s).
\* A process of the model answers through its listener; at any other address
\* whatever is there answers anything or nothing
DirectFetch(p, answer) ==
    /\ call[p].pc = "direct"
    /\ LET qs == ProcsAt(AddrOf(call[p].target))
       IN  IF qs = {}
           THEN /\ Return(p, Entry(p, call[p], OptRes(answer), answer, "ok", ""))
                /\ UNCHANGED <<hash_ring, nodes, chan, hist>>
           ELSE \E q \in qs :
                  IF ~listening[q]
                  THEN /\ Return(p, Entry(p, call[p], "None", None, "ok", ""))
                       /\ UNCHANGED <<hash_ring, nodes, chan, hist>>
                  ELSE \E o \in ServeOutcomes(GetMarker \o call[p].key) :
                         /\ Served(q, o)
                         /\ Return(p, Entry(p, call[p],
                                            OptRes(ParseDirect(ReplyBytes(q, o))),
                                            ParseDirect(ReplyBytes(q, o)), "ok", ""))
    /\ UNCHANGED <<disk, poisoned, tasks, locks, seeds, virtual_nodes, response, peers, message_sender, listening, cache, initpc, todo, calls>>

(***************************************************************************)
(* The cluster: both processes initialize, join nodes, serve calls and     *)
(* accept connections.                                                     *)
(***************************************************************************)
\* the client's calls are made at B, with two keys: B's ring gives <<109>> to
\* NA once NA has joined and <<111>> to NX once NX has joined
Callers == {"B"}
\* the clients that are not processes of the model connect to A's listener
Servers == {"A"}
CallKeys == {<<109>>, <<111>>}
\* the inserts the client makes: either value under the first key, one value
\* under the second
CallInserts == {<<<<109>>, <<117>>>>, <<<<109>>, <<118>>>>, <<<<111>>, <<117>>>>}
\* the nodes the API is asked to join: B's peer and a node that is no process
JoinNodes == {NA, NX}
\* the streams of clients that are not processes of the model
ClientStreams ==
    {<<0>> \o Frame(EncMsg(KeyUpdated(<<109>>, <<118>>))), GetMarker \o <<109>>}
\* what the connection handler makes of them
ClientOutcomes == UNION {ServeOutcomes(st) : st \in ClientStreams}

Next ==
    \/ \E p \in Procs : InitStart(p, TRUE)
    \/ \E p \in Procs, q \in Procs : InitPeerProc(p, q)
    \/ \E p \in Procs : InitReturn(p)
    \/ \E p \in Callers : \E n \in JoinNodes \ RingNodes(hash_ring[p]) :
          HandleNodeJoined(p, n)
    \/ \E q \in Servers, o \in ClientOutcomes : EnvConnect(q, o)
    \/ \E q \in Procs : Process(q)
    \/ \E p \in Callers, kv \in CallInserts, b \in BOOLEAN :
          InsertCall(p, kv[1], kv[2], b)
    \/ \E p \in Callers, k \in CallKeys : GetCall(p, k)
    \/ \E p \in Procs, t \in NodeUniverse, q \in Procs : SendToProc(p, t, q)
    \/ \E p \in Procs, t \in NodeUniverse, a \in {"ack", "err", "silent"} :
          SendToEnv(p, t, a)
    \/ \E p \in Procs : ForwardOk(p)
    \/ \E p \in Procs, b \in BOOLEAN : ForwardFailed(p, b)
    \/ \E p \in Procs : BroadcastNext(p)
    \/ \E p \in Procs : FetchSent(p)
    \/ \E p \in Procs, a \in Values \cup {None} : DirectFetch(p, a)

Spec == Init /\ [][Next]_vars

(***************************************************************************)
(* Gets alone: B, with A on its ring, is asked for keys of which none was  *)
(* ever inserted anywhere; A's listener and processor answer.              *)
(***************************************************************************)
FetchKeys == {<<109>>, TestKey}

InitFetch == NewCluster([p \in Procs |-> <<>>])

NextFetch ==
    \/ \E p \in Procs : InitStart(p, TRUE)
    \/ \E p \in Procs : InitReturn(p)
    \/ \E p \in Callers : \E n \in {NA} \ RingNodes(hash_ring[p]) : HandleNodeJoined(p, n)
    \/ \E p \in Callers, k \in FetchKeys : GetCall(p, k)
    \/ \E p \in Callers, t \in {NA}, q \in Servers : SendToProc(p, t, q)
    \/ \E p \in Callers : FetchSent(p)
    \/ \E p \in Callers : DirectFetch(p, None)
    \/ \E q \in Servers : Process(q)

SpecFetch == InitFetch /\ [][NextFetch]_vars

(***************************************************************************)
(* Membership of one process: A is built with any of the seed lists,       *)
(* initializes against peers that are not processes of the model, and its  *)
(* membership operations are called with any node in any order.            *)
(***************************************************************************)
Members == {"A"}
SeedLists ==
    {<<>>, <<AddrOf(NX)>>, <<AddrOf(NX), AddrOf(NB2)>>, <<AddrOf(NX), AddrOf(NX)>>}
\* a client's handshake the connection handler takes as one
HandshakeStreams == {<<0>> \o Frame(EncNode(n)) : n \in EnvNodes}
HandshakeOutcomes == UNION {ServeOutcomes(st) : st \in HandshakeStreams}

InitMember ==
    \E sds \in SeedLists : NewCluster([p \in Procs |-> IF p \in Members THEN sds ELSE <<>>])

NextMember ==
    \/ \E p \in Members, b \in BOOLEAN : InitStart(p, b)
    \/ \E p \in Members, a \in PeerAnswers : InitPeerEnv(p, a)
    \/ \E p \in Members : InitReturn(p)
    \/ \E p \in Members, n \in NodeUniverse : HandleNodeJoined(p, n)
    \/ \E p \in Members, n \in NodeUniverse : HandleNodeLeft(p, n)
    \/ \E q \in Members, o \in HandshakeOutcomes : EnvConnect(q, o)

SpecMember == InitMember /\ [][NextMember]_vars

(***************************************************************************)
(* One node: B alone, without seeds.  Its clients make calls, its own node *)
(* leaves and joins its ring, and programs that are not processes of the   *)
(* model write to its listener, whose messages its processor handles.      *)
(***************************************************************************)
NodeStreams ==
    {<<0>> \o Frame(EncMsg(m)) :
        m \in {KeyUpdated(<<109>>, <<118>>), KeyInvalidated(<<109>>),
               FetchRequest(<<109>>)}}
    \cup {GetMarker \o <<109>>}
NodeOutcomes == UNION {ServeOutcomes(st) : st \in NodeStreams}

InitNode == NewCluster([p \in Procs |-> <<>>])

NextNode ==
    \/ \E p \in Callers : InitStart(p, TRUE)
    \/ \E p \in Callers : InitReturn(p)
    \/ \E p \in Callers : HandleNodeLeft(p, LocalNode(p))
    \/ \E p \in Callers : \E n \in {LocalNode(p)} \ RingNodes(hash_ring[p]) :
          HandleNodeJoined(p, n)
    \/ \E p \in Callers, k \in CallKeys, v \in Values, b \in BOOLEAN :
          InsertCall(p, k, v, b)
    \/ \E p \in Callers, k \in CallKeys : GetCall(p, k)
    \/ \E q \in Callers, o \in NodeOutcomes : EnvConnect(q, o)
    \/ \E q \in Callers : Process(q)

SpecNode == InitNode /\ [][NextNode]_vars

(***************************************************************************)
(* One node whose ring and registry are worked on by several tasks at the  *)
(* same time: handle_node_joined and handle_node_left called through       *)
(* &self, the listener's handshake registrations, and ClusterCache calls   *)
(* that read the ring and then the registry.  Each step is one await point *)
(* of the code: taking a guard, or the work done under it up to its drop.  *)
(***************************************************************************)
ConcNode == "A"
ConcNodes == {NX}
Writers == {"joined", "left", "handshake"}
TaskKinds == {<<k, n>> : k \in Writers, n \in ConcNodes} \cup {<<"reader", NoNode>>}

\* a write guard that is handed out whoever holds the lock
RingWriteAny(l) == TRUE

\* RwLock::write on hash_ring: no other guard is out
RingWriteFree(l) == l.ring_w = {} /\ l.ring_r = {}
\* RwLock::read on hash_ring: no write guard is out
RingReadFree(l) == l.ring_w = {}
\* RwLock::write and RwLock::read on nodes
NodesWriteFree(l) == l.nodes_w = {} /\ l.nodes_r = {}
NodesReadFree(l) == l.nodes_w = {}

\* what each kind of task does to the ring and to the registry
RingOp(kind, ring, n) ==
    IF kind = "left" THEN LeftRing(ring, n)
    ELSE IF kind = "joined" THEN JoinedRing(ring, n)
    ELSE RingAdd(ring, n)
RegOp(kind, reg, n) ==
    IF kind = "left" THEN LeftNodes(reg, n)
    ELSE IF kind = "joined" THEN JoinedNodes(reg, n)
    ELSE RegInsert(reg, n)

ConcRest == <<disk, poisoned, seeds, virtual_nodes, peers, message_sender, listening, chan, response, cache, initpc, todo,
              call, conn, calls, last_call, last_ok, hist>>

\* a task starts once initialize has returned; the listener's tasks need the
\* listener and the message sender
Spawn(i, kind, n) ==
    /\ initpc[ConcNode] = "done"
    /\ tasks[i] = NoTask
    /\ \A j \in 1..(i - 1) : tasks[j] # NoTask
    /\ kind = "handshake" => listening[ConcNode] /\ message_sender[ConcNode]
    /\ tasks' = [tasks EXCEPT ![i] = [kind |-> kind, node |-> n, pc |-> "start"]]
    /\ UNCHANGED <<hash_ring, nodes, locks>>
    /\ UNCHANGED ConcRest

\* hash_ring.write().await
AcquireRingWrite(i) ==
    /\ tasks[i].kind \in Writers /\ tasks[i].pc = "start"
    /\ RingWriteFree(locks)
    /\ locks' = [locks EXCEPT !.ring_w = @ \cup {i}]
    /\ tasks' = [tasks EXCEPT ![i].pc = "ring"]
    /\ UNCHANGED <<hash_ring, nodes>>
    /\ UNCHANGED ConcRest

\* ring.add / ring.remove under the guard; handle_node_joined and
\* handle_node_left drop the guard at the end of their block, the listener
\* keeps it
RingStep(i) ==
    /\ tasks[i].kind \in Writers /\ tasks[i].pc = "ring"
    /\ hash_ring' = [hash_ring EXCEPT
           ![ConcNode] = RingOp(tasks[i].kind, @, tasks[i].node)]
    /\ locks' = IF tasks[i].kind = "handshake" THEN locks
                ELSE [locks EXCEPT !.ring_w = @ \ {i}]
    /\ tasks' = [tasks EXCEPT ![i].pc = "mid"]
    /\ UNCHANGED nodes
    /\ UNCHANGED ConcRest

\* nodes.write().await
AcquireNodesWrite(i) ==
    /\ tasks[i].kind \in Writers /\ tasks[i].pc = "mid"
    /\ NodesWriteFree(locks)
    /\ locks' = [locks EXCEPT !.nodes_w = @ \cup {i}]
    /\ tasks' = [tasks EXCEPT ![i].pc = "reg"]
    /\ UNCHANGED <<hash_ring, nodes>>
    /\ UNCHANGED ConcRest

\* a task that gives back the registry guard and keeps the ring guard it holds
RingGuardKept(l, i) == [l EXCEPT !.nodes_w = @ \ {i}]

\* the end of the block: every guard the task holds is dropped
GuardsDropped(l, i) == [l EXCEPT !.nodes_w = @ \ {i}, !.ring_w = @ \ {i}]

\* nodes.insert / nodes.remove under the guard, then every guard the task
\* holds is dropped
RegStep(i) ==
    /\ tasks[i].kind \in Writers /\ tasks[i].pc = "reg"
    /\ nodes' = [nodes EXCEPT ![ConcNode] = RegOp(tasks[i].kind, @, tasks[i].node)]
    /\ locks' = GuardsDropped(locks, i)
    /\ tasks' = [tasks EXCEPT ![i].pc = "done"]
    /\ UNCHANGED hash_ring
    /\ UNCHANGED ConcRest

\* ClusterCache::insert: get_responsible_node takes hash_ring.read() ...
AcquireRingRead(i) ==
    /\ tasks[i].kind = "reader" /\ tasks[i].pc = "start"
    /\ RingReadFree(locks)
    /\ locks' = [locks EXCEPT !.ring_r = @ \cup {i}]
    /\ tasks' = [tasks EXCEPT ![i].pc = "rread"]
    /\ UNCHANGED <<hash_ring, nodes>>
    /\ UNCHANGED ConcRest

\* ... looks the key up and drops the guard
ReadRing(i) ==
    /\ tasks[i].kind = "reader" /\ tasks[i].pc = "rread"
    /\ locks' = [locks EXCEPT !.ring_r = @ \ {i}]
    /\ tasks' = [tasks EXCEPT ![i].pc = "mid"]
    /\ UNCHANGED <<hash_ring, nodes>>
    /\ UNCHANGED ConcRest

\* get_nodes takes nodes.read() ...
AcquireNodesRead(i) ==
    /\ tasks[i].kind = "reader" /\ tasks[i].pc = "mid"
    /\ NodesReadFree(locks)
    /\ locks' = [locks EXCEPT !.nodes_r = @ \cup {i}]
    /\ tasks' = [tasks EXCEPT ![i].pc = "nread"]
    /\ UNCHANGED <<hash_ring, nodes>>
    /\ UNCHANGED ConcRest

\* ... copies the registry and drops the guard
ReadNodes(i) ==
    /\ tasks[i].kind = "reader" /\ tasks[i].pc = "nread"
    /\ locks' = [locks EXCEPT !.nodes_r = @ \ {i}]
    /\ tasks' = [tasks EXCEPT ![i].pc = "done"]
    /\ UNCHANGED <<hash_ring, nodes>>
    /\ UNCHANGED ConcRest

InitConc == NewCluster([p \in Procs |-> <<>>])

NextConc ==
    \/ InitStart(ConcNode, TRUE)
    \/ InitReturn(ConcNode)
    \/ \E i \in TaskIds, kn \in TaskKinds : Spawn(i, kn[1], kn[2])
    \/ \E i \in TaskIds : AcquireRingWrite(i)
    \/ \E i \in TaskIds : RingStep(i)
    \/ \E i \in TaskIds : AcquireNodesWrite(i)
    \/ \E i \in TaskIds : RegStep(i)
    \/ \E i \in TaskIds : AcquireRingRead(i)
    \/ \E i \in TaskIds : ReadRing(i)
    \/ \E i \in TaskIds : AcquireNodesRead(i)
    \/ \E i \in TaskIds : ReadNodes(i)

SpecConc == InitConc /\ [][NextConc]_vars


(***************************************************************************)
(* One node that calls send_message itself: to a Node with its own id the  *)
(* message goes to the node's Message Processor in-process                 *)
(* (process_message), to any other Node over a connection.                 *)
(***************************************************************************)
ProcNode == "B"
SendNodes == {NB, NB2, NX}
SendMessages ==
    {KeyUpdated(<<109>>, <<118>>), KeyInvalidated(<<109>>), FetchRequest(<<109>>),
     FetchRequest(<<111>>)}

\* a test for the local node that compares the whole Node
SendsLocallyByNode(p, t) == t = LocalNode(p)

\* send_message: node.id == self.local_node.id
SendsLocally(p, t) == t.id = LocalNode(p).id

\* a process_message that sends the pair again
EnqueuedTwice(p, sender, m) ==
    IF message_sender[p] THEN chan[p] \o <<<<sender, m>>, <<sender, m>>>> ELSE chan[p]

\* process_message: the pair goes to the channel if there is a sender for it
Enqueued(p, sender, m) ==
    IF message_sender[p] THEN Append(chan[p], <<sender, m>>) ELSE chan[p]

\* send_message(t, m) called on p; a connection to another node ends as the
\* peer makes it end
SendMessage(p, t, m, answer) ==
    /\ IF SendsLocally(p, t)
       THEN /\ message_sender[p] => Len(chan[p]) < Min(MaxQueue, ChannelCap)
            /\ chan' = [chan EXCEPT ![p] = Enqueued(p, t, m)]
            /\ UNCHANGED conn
       ELSE /\ conn' = [conn EXCEPT ![p] = answer]
            /\ UNCHANGED chan
    /\ UNCHANGED <<disk, poisoned, tasks, locks, seeds, virtual_nodes, response, hash_ring, nodes, peers, message_sender,
                   listening, cache, initpc, todo, call, calls, last_call, last_ok, hist>>

InitProc == NewCluster([p \in Procs |-> <<>>])

NextProc ==
    \/ \E b \in BOOLEAN : InitStart(ProcNode, b)
    \/ InitReturn(ProcNode)
    \/ \E t \in SendNodes, m \in SendMessages, a \in {"ack", "err", "silent"} :
          SendMessage(ProcNode, t, m, a)
    \/ Process(ProcNode)

SpecProc == InitProc /\ [][NextProc]_vars

(***************************************************************************)
(* The channel at its capacity: one node whose callers hand messages to    *)
(* process_message as fast as the channel takes them, and whose Message    *)
(* Processor, a spawned task the runtime keeps scheduling, receives them.  *)
(***************************************************************************)
\* a channel without a capacity
HasRoomAlways(ch) == TRUE

\* mpsc::channel(100): tx.send waits while the channel holds 100 messages
HasRoom(ch) == Len(ch) < ChannelCap

\* process_message(sender, m) called on p: the pair is sent to the channel
\* when there is a sender, waiting for room; without one it returns Ok at once
ProcessMessage(p, sender, m) ==
    /\ message_sender[p] => HasRoom(chan[p])
    /\ chan' = [chan EXCEPT ![p] = Enqueued(p, sender, m)]
    /\ UNCHANGED <<disk, poisoned, tasks, locks, seeds, virtual_nodes, response, hash_ring, nodes, peers, message_sender,
                   listening, cache, initpc, todo, call, conn, calls, last_call, last_ok, hist>>

NextQueue ==
    \/ InitStart(ProcNode, TRUE)
    \/ InitReturn(ProcNode)
    \/ ProcessMessage(ProcNode, LocalNode(ProcNode), KeyInvalidated(<<109>>))
    \/ Process(ProcNode)

\* the processor's task is always scheduled again: a message that waits is
\* received
SpecQueue == InitProc /\ [][NextQueue]_vars /\ WF_vars(Process(ProcNode))

(***************************************************************************)
(* Nodes with metadata on the ring.  A Node record of the model carries    *)
(* the field metadata only when the map is not empty, so every Node of     *)
(* the program has one record.                                             *)
(***************************************************************************)
RingProc == "B"

MetadataOf(n) == IF "metadata" \in DOMAIN n THEN n.metadata ELSE <<>>

WithMetadata(n, md) ==
    IF md = <<>> THEN n
    ELSE [id |-> n.id, host |-> n.host, port |-> n.port, api_port |-> n.api_port,
          metadata |-> md]

\* metadata maps: the empty one and two with an entry
MetadataMaps == {<<>>, <<114>> :> <<49>>, <<114>> :> <<50>>}

\* the derived PartialEq of Node compares every field, metadata included
NodeEq(a, b) ==
    /\ a.id = b.id /\ a.host = b.host /\ a.port = b.port /\ a.api_port = b.api_port
    /\ MetadataOf(a) = MetadataOf(b)

DescribedNodes == {WithMetadata(n, md) : n \in {NA, NX}, md \in MetadataMaps}

\* virtual_nodes as ClusterSettings::default() makes it, as a configuration
\* file sets it, and as default_virtual_nodes makes it
VirtualNodeSettings == {0, 1, DefaultVirtualNodes}

InitRing ==
    \E vn \in VirtualNodeSettings :
        NewClusterOf([p \in Procs |-> <<>>], [p \in Procs |-> vn])

NextRing ==
    \/ \E n \in DescribedNodes : HandleNodeJoined(RingProc, n)
    \/ \E n \in DescribedNodes : HandleNodeLeft(RingProc, n)

SpecRing == InitRing /\ [][NextRing]_vars

(***************************************************************************)
(* A FastbuCache on its own (cache.rs): insert, get, a new instance over   *)
(* the same storage directory, and the Mutex of its data.                  *)
(***************************************************************************)
StoreNode == "A"

\* FastbuCache::get: self.data.lock().unwrap() panics on a poisoned lock
GetOutcome(isPoisoned, v) == IF isPoisoned THEN "panic" ELSE OptRes(v)

\* an insert that puts the entry in the map once it is saved
InsertedMapIfSaved(c, k, v, persisted) == IF persisted THEN StoreInsert(c, k, v) ELSE c

\* the map takes the entry under the lock, before the save is attempted
InsertedMap(c, k, v, persisted) == StoreInsert(c, k, v)

\* FastbuCache::insert: with a poisoned lock it returns the error before the
\* map is touched; else the map takes the entry and the save decides the result
CacheInsert(p, k, v, persisted) ==
    /\ call[p] = Idle /\ calls < MaxStoreCalls
    /\ calls' = calls + 1
    /\ IF poisoned[p]
       THEN /\ UNCHANGED <<cache, disk>>
            /\ Return(p, Entry(p, Begin(p, "insert", k, v, "", NoNode, {}),
                               "Err", v, "none", "no"))
       ELSE /\ cache' = [cache EXCEPT ![p] = InsertedMap(@, k, v, persisted)]
            /\ disk' = [disk EXCEPT ![p] = DiskSave(@, k, v, persisted)]
            /\ Return(p, Entry(p, Begin(p, "insert", k, v, "", NoNode, {}),
                               StoreResult(persisted), v, "none", Saved(persisted)))
    /\ UNCHANGED <<poisoned, tasks, locks, seeds, virtual_nodes, response, hash_ring, nodes, peers,
                   message_sender, listening, chan, initpc, todo, hist>>

CacheGet(p, k) ==
    /\ call[p] = Idle /\ calls < MaxStoreCalls
    /\ calls' = calls + 1
    /\ LET v == IF poisoned[p] THEN None ELSE StoreGet(cache[p], k)
       IN  Return(p, Entry(p, Begin(p, "get", k, None, "", NoNode, {}),
                           GetOutcome(poisoned[p], v), v, "none", ""))
    /\ UNCHANGED <<disk, poisoned, tasks, locks, seeds, virtual_nodes, response, hash_ring, nodes, peers,
                   message_sender, listening, chan, cache, initpc, todo, hist>>

\* FastbuCache::new once more (a restart): an empty map behind a new Mutex, and
\* Storage::new over the directory as it is, which reads the index file if
\* there is one; no save ever writes the index file
CacheNew(p) ==
    /\ call[p] = Idle
    /\ cache' = [cache EXCEPT ![p] = [k \in StoreKeys |-> None]]
    /\ poisoned' = [poisoned EXCEPT ![p] = FALSE]
    /\ UNCHANGED <<disk, tasks, locks, seeds, virtual_nodes, response, hash_ring, nodes, peers,
                   message_sender, listening, chan, initpc, todo, call, conn, calls,
                   last_call, last_ok, hist>>

\* a thread panicked while it held the lock of the cache's data
LockPoisoned(p) ==
    /\ ~ poisoned[p]
    /\ poisoned' = [poisoned EXCEPT ![p] = TRUE]
    /\ UNCHANGED <<disk, tasks, locks, seeds, virtual_nodes, response, hash_ring, nodes, peers,
                   message_sender, listening, chan, cache, initpc, todo, call, conn, calls,
                   last_call, last_ok, hist>>

InitStore == NewCluster([p \in Procs |-> <<>>])

\* one instance whose saves all succeed
NextStore ==
    \/ \E k \in Keys, v \in Values : CacheInsert(StoreNode, k, v, TRUE)
    \/ \E k \in Keys : CacheGet(StoreNode, k)

SpecStore == InitStore /\ [][NextStore]_vars

\* instances that follow one another over one storage directory, with saves
\* that fail and a lock that gets poisoned
NextDisk ==
    \/ \E k \in CallKeys, v \in Values, b \in BOOLEAN : CacheInsert(StoreNode, k, v, b)
    \/ \E k \in CallKeys : CacheGet(StoreNode, k)
    \/ CacheNew(StoreNode)
    \/ LockPoisoned(StoreNode)

SpecDisk == InitStore /\ [][NextDisk]_vars

(***************************************************************************)
(* The program as main starts it (main.rs): initialize, and then the API   *)
(* over a ClusterCache if it returned Ok, over a FastbuCache on its own    *)
(* (run_standalone_mode) if it returned an error.                          *)
(***************************************************************************)
\* a main that goes on to the ClusterCache whatever initialize returned
ModeIgnoringFailure(pc) ==
    IF pc \in {"done", "failed"} THEN "cluster" ELSE "starting"

\* match cluster.initialize().await
Mode(pc) ==
    IF pc = "done" THEN "cluster"
    ELSE IF pc = "failed" THEN "standalone"
    ELSE "starting"

\* the API's insert and get on the FastbuCache of run_standalone_mode
StandaloneInsert(p, k, v, persisted) ==
    /\ Mode(initpc[p]) = "standalone"
    /\ CacheInsert(p, k, v, persisted)

StandaloneGet(p, k) ==
    /\ Mode(initpc[p]) = "standalone"
    /\ CacheGet(p, k)

\* the API's insert and get on the ClusterCache main makes of the cluster
ClusterInsert(p, k, v, persisted) ==
    /\ Mode(initpc[p]) = "cluster"
    /\ InsertCall(p, k, v, persisted)

ClusterGet(p, k) ==
    /\ Mode(initpc[p]) = "cluster"
    /\ GetCall(p, k)

NextMain ==
    \/ \E p \in Members, b \in BOOLEAN : InitStart(p, b)
    \/ \E p \in Members, a \in PeerAnswers : InitPeerEnv(p, a)
    \/ \E p \in Members : InitReturn(p)
    \/ \E p \in Members, k \in CallKeys, v \in Values, b \in BOOLEAN :
          StandaloneInsert(p, k, v, b)
    \/ \E p \in Members, k \in CallKeys : StandaloneGet(p, k)
    \/ \E p \in Members, k \in CallKeys, v \in Values, b \in BOOLEAN :
          ClusterInsert(p, k, v, b)
    \/ \E p \in Members, k \in CallKeys : ClusterGet(p, k)

SpecMain == InitMember /\ [][NextMain]_vars

(***************************************************************************)
(* Properties of the cache calls (checked under Spec).                     *)
(***************************************************************************)
\* the owner of the last returned call is another node than its caller's
RemoteOwner(e) == e.owner # NoNode /\ e.owner.id # LocalNode(e.proc).id

\* C1: on a ring that holds the local node alone, a get returns the value of
\* the last insert of the key that returned success, and nothing for a key no
\* insert put successfully.
C1_GetReturnsLastInsert ==
    (last_call.op = "get" /\ last_call.solo)
        => last_call.value = last_ok[last_call.proc][last_call.key]

\* C2: an insert made at B of a key the ring gives to A, returned with
\* success while A's listener ran, leaves the value in A's store once A's
\* Message Processor has nothing left to handle.
C2_OwnerHoldsForwardedValue ==
    (/\ last_call.op = "insert" /\ last_call.res = "Ok"
     /\ last_call.proc = "B" /\ last_call.owner = NA /\ last_call.reach
     /\ chan["A"] = <<>>)
        => cache["A"][last_call.key] = last_call.value

\* an insert whose owner is remote and whose send_message failed has returned
\* and its caller has not begun another call
FellBack ==
    /\ last_call.op = "insert" /\ last_call.sendres = "err"
    /\ RemoteOwner(last_call)
    /\ call[last_call.proc] = Idle

\* C3 (as amended): when the key's owner is remote and send_message to it
\* fails, insert leaves the value in the local in-memory store and returns
\* what the local store's insert returns: success exactly when the entry was
\* saved to disk.
C3_FallbackStoresLocally ==
    FellBack
        => /\ cache[last_call.proc][last_call.key] = last_call.value
           /\ (last_call.res = "Ok") <=> (last_call.saved = "yes")

\* a fallback insert has returned an error: the save failed
C3_Witness == FellBack /\ last_call.res = "Err" /\ last_call.reach

\* C3 (as claimed): when the key's owner is remote and send_message to it
\* fails, insert stores the value locally and returns success.
C3_FallbackReturnsSuccess ==
    FellBack
        => /\ cache[last_call.proc][last_call.key] = last_call.value
           /\ last_call.res = "Ok"

\* the steps by which the call of p goes on
CallStep(p) ==
    \/ \E t \in NodeUniverse, q \in Procs : SendToProc(p, t, q)
    \/ \E t \in NodeUniverse, a \in {"ack", "err", "silent"} : SendToEnv(p, t, a)
    \/ ForwardOk(p)
    \/ \E b \in BOOLEAN : ForwardFailed(p, b)
    \/ BroadcastNext(p)
    \/ FetchSent(p)
    \/ \E a \in Values \cup {None} : DirectFetch(p, a)

\* C4: a call never waits for ever: whatever the peer has done, a call that
\* has not returned can take its next step.
C4_CallsGoOn == \A p \in Procs : call[p] # Idle => ENABLED CallStep(p)

\* the steps by which the broadcast of p's insert goes on
BroadcastStep(p) ==
    \/ \E t \in NodeUniverse, q \in Procs : SendToProc(p, t, q)
    \/ \E t \in NodeUniverse, a \in {"ack", "err", "silent"} : SendToEnv(p, t, a)
    \/ BroadcastNext(p)

\* C23: an insert of a key the local node owns, stored locally with success,
\* sends KeyUpdated to every other registry node and returns success whatever
\* becomes of the sends: the broadcast never stops before its last send and
\* its return.
C23_BroadcastCompletes ==
    \A p \in Procs : call[p].pc = "bcast" => ENABLED BroadcastStep(p)

\* C25: an insert returns an error only when the local store's insert
\* failed, also after a failed send; a get returns a value or nothing.  No
\* failure of the communication with a peer reaches the caller.
C25_OnlyStoreErrorsReturned ==
    /\ (last_call.op = "insert" /\ last_call.res # "Ok")
          => last_call.res = "Err" /\ last_call.saved = "no"
    /\ (last_call.op = "insert" /\ last_call.sendres = "err" /\ last_call.saved # "no")
          => last_call.res = "Ok"
    /\ last_call.op = "get" => last_call.res \in {"Some", "None"}

\* an insert whose send to the owner failed has returned success
C25_Witness ==
    /\ last_call.op = "insert" /\ last_call.owner # NoNode
    /\ last_call.owner.id # LocalNode(last_call.proc).id
    /\ last_call.sendres = "err" /\ last_call.res = "Ok"

(***************************************************************************)
(* Properties of the membership service (checked under SpecMember).        *)
(***************************************************************************)
\* C5: initialize goes on whatever a peer does (no answer of a peer makes it
\* wait for ever, and when every peer was tried it returns); it fails only
\* when the listener could not bind.
C5_InitializeCompletes ==
    \A p \in Members :
        /\ (initpc[p] = "peers" /\ todo[p] # <<>>)
              => \A a \in PeerAnswers : ENABLED InitPeerEnv(p, a)
        /\ (initpc[p] = "peers" /\ todo[p] = <<>>) => ENABLED InitReturn(p)
        /\ Len(todo[p]) <= Len(seeds[p])
        /\ initpc[p] = "failed" => ~listening[p]
        /\ initpc[p] \in {"peers", "done"} => listening[p]

\* initialize has returned Ok after two seeds of which none answered a Node
C5_Witness ==
    \E p \in Members :
        /\ initpc[p] = "done" /\ Len(seeds[p]) = 2
        /\ hist = <<>> /\ RingNodes(hash_ring[p]) = {LocalNode(p)}

\* C6: after every completed membership operation the registry holds exactly
\* the nodes that are on the ring.
C6_RegistryIsRing ==
    \A p \in Members : initpc[p] # "peers" => nodes[p] = RingNodes(hash_ring[p])

\* C7: from FastbuCluster::new onwards the local node is in the registry and
\* on the ring.
C7_LocalNodePresent ==
    \A p \in Members :
        LocalNode(p) \in nodes[p] /\ LocalNode(p) \in RingNodes(hash_ring[p])

\* the owner a key has among a set of nodes: the node at the first position at
\* or behind the key's, else the node at the first position of all
OwnerAmong(S, k) ==
    LET behind == {n \in S : NodeHash(n) >= KeyHash(k)}
        from == IF behind = {} THEN S ELSE behind
    IN  IF S = {} THEN NoNode
        ELSE CHOOSE n \in from : \A m \in from : NodeHash(n) <= NodeHash(m)

\* C8: get_responsible_node is a function of the key and of the set of nodes
\* on the ring: whatever joins and leaves made the ring, the owner is the one
\* the set of its nodes gives.
C8_OwnerFromNodeSet ==
    \A p \in Members, k \in Keys :
        GetResponsibleNode(hash_ring[p], k) = OwnerAmong(RingNodes(hash_ring[p]), k)

\* two nodes joined against the order of their ring positions
C8_Witness ==
    /\ Len(hist) = 2
    /\ hist[1].kind = "joined" /\ hist[2].kind = "joined"
    /\ NodeHash(hist[1].node) > NodeHash(hist[2].node)
    /\ hist[2].before = hist[1].after
    /\ Cardinality(RingNodes(hist[2].after)) = 3

\* the last two membership operations were handle_node_joined(n) and then
\* handle_node_left(n)
JoinedThenLeft ==
    /\ Len(hist) = 2
    /\ hist[1].kind = "joined" /\ hist[2].kind = "left"
    /\ hist[1].proc = hist[2].proc /\ hist[1].node = hist[2].node
    /\ hist[2].before = hist[1].after

\* C9: handle_node_joined(n) followed by handle_node_left(n) leaves every
\* key's owner what it was before the join.
C9_JoinThenLeaveRestores ==
    JoinedThenLeft
        => \A k \in Keys : GetResponsibleNode(hist[2].after, k)
                              = GetResponsibleNode(hist[1].before, k)

\* the join moved a key to the node, the leave moved it back
C9_Witness ==
    /\ JoinedThenLeft
    /\ \E k \in Keys : GetResponsibleNode(hist[1].after, k)
                          # GetResponsibleNode(hist[1].before, k)

\* the keys whose owner a membership operation changed
Moved(e) ==
    {k \in Keys : GetResponsibleNode(e.before, k) # GetResponsibleNode(e.after, k)}

\* C10: when a node is added, every key whose owner changes is owned by the
\* node afterwards; when a node is removed, every key whose owner changes was
\* owned by the node before.
C10_OnlyTheNodesKeysMove ==
    \A i \in 1..Len(hist) :
        \A k \in Moved(hist[i]) :
            IF hist[i].kind = "left"
            THEN GetResponsibleNode(hist[i].before, k) = hist[i].node
            ELSE GetResponsibleNode(hist[i].after, k) = hist[i].node

\* a join moved a key and the leave that followed moved one
C10_Witness ==
    /\ Len(hist) = 2
    /\ hist[1].kind = "joined" /\ hist[2].kind = "left"
    /\ Moved(hist[1]) # {} /\ Moved(hist[2]) # {}
    /\ Len(hist[2].after) > 0

(***************************************************************************)
(* Properties of one node (checked under SpecNode).                        *)
(***************************************************************************)
\* the call that returned last found no owner for its key
NoOwner(op) == last_call.op = op /\ last_call.owner = NoNode

Handles(q, t) == Process(q) /\ Head(chan[q])[2].type = t
Handled(q) == Head(chan[q])[2]

\* C12: after the Message Processor of a node handles KeyInvalidated{k} while
\* the node's local cache store holds k, the node's local get(k) returns
\* nothing.
C12_InvalidatedKeyIsGone ==
    [][\A q \in Procs :
          (Handles(q, "KeyInvalidated") /\ StoreGet(cache[q], Handled(q).key) # None)
              => StoreGet(cache'[q], Handled(q).key) = None]_vars

\* C13: after the Message Processor of a node handles KeyUpdated{k, v}, the
\* node's local cache store returns v for k.
C13_UpdatedKeyIsStored ==
    [][\A q \in Procs :
          Handles(q, "KeyUpdated")
              => StoreGet(cache'[q], Handled(q).key) = Handled(q).value]_vars

\* C14: when the Message Processor of a node handles FetchRequest{k}, the
\* FetchResponse it sends carries the value the node's local cache store holds
\* for k, and carries no value only when the store does not hold k.
C14_FetchResponseCarriesValue ==
    [][\A q \in Procs :
          Handles(q, "FetchRequest")
              => response'[q] = FetchResponse(Handled(q).key,
                                              StoreGet(cache[q], Handled(q).key))]_vars


\* C15: every well-formed frame send_message writes to a running peer listener
\* is decoded from its first byte, forwarded to the peer's Message Processor
\* and answered with the acknowledgment byte, so that send_message succeeds.
C15_FrameIsAcknowledged ==
    [][\A p \in Procs, q \in Procs, t \in NodeUniverse :
          (SendToProc(p, t, q) /\ listening[q] /\ message_sender[q])
              => /\ conn'[p] = "ack"
                 /\ Len(chan'[q]) = Len(chan[q]) + 1
                 /\ chan'[q][Len(chan'[q])][2] = CallMessage(call[p])]_vars


\* the streams a client may open a connection with: the framed messages and
\* the direct-fetch requests of NodeStreams, and the marker with an empty key
ProbeStreams == NodeStreams \cup {GetMarker}
FirstReads(st) == 1..Min(SmallBuf, Len(st))

\* C16: a running listener handles a connection with the direct-fetch text
\* protocol if and only if the first four bytes the client sent are GET:,
\* also when the key is empty or arrives in a later read; every other
\* connection is parsed as length-prefixed framing.
C16_DirectIffMarker ==
    \A q \in Procs :
        listening[q]
            => \A st \in ProbeStreams : \A n \in FirstReads(st) :
                  (ServeOutcome(st, n).kind = "direct") <=> StartsWith(st, GetMarker)

\* the answer the claim expects of a node whose store is c
StoreAnswer(c, k) ==
    IF StoreGet(c, k) # None THEN FoundPrefix \o StoreGet(c, k) ELSE NotFound

\* C17: a direct-fetch request GET:k sent to a node is answered with FOUND:v
\* exactly when the node's local cache store holds v for k, and with NOT_FOUND
\* exactly when it holds nothing for k.
C17_DirectFetchReadsStore ==
    \A q \in Procs :
        listening[q]
            => \A k \in Keys :
                  LET st == GetMarker \o k
                      o == ServeOutcome(st, Len(st))
                  IN  /\ o.kind = "direct"
                      /\ ReplyBytes(q, o) = StoreAnswer(cache[q], o.key)


\* node n is on the ring and in the registry of p after the step
KnownAfter(p, n) == n \in RingNodes(hash_ring'[p]) /\ n \in nodes'[p]

\* C18: when B's initialize reaches the seed that is A's cluster address while
\* A's listener is running, the handshake leaves B's Node on A's ring and in
\* A's registry, and A's Node on B's ring and in B's registry, each equal to
\* the original in id, host, port and api_port.
C18_HandshakeRegistersBoth ==
    [][(InitPeerProc("B", "A") /\ listening["A"] /\ message_sender["A"])
          => KnownAfter("A", LocalNode("B")) /\ KnownAfter("B", LocalNode("A"))]_vars


(***************************************************************************)
(* Properties of concurrent membership tasks (checked under SpecConc).     *)
(***************************************************************************)
\* handle_node_joined / handle_node_left has changed the ring and not yet the
\* registry
HalfDone(j) == tasks[j].kind \in {"joined", "left"} /\ tasks[j].pc \in {"mid", "reg"}

\* C19: no concurrent task reads the ring or the registry while
\* handle_node_joined or handle_node_left has changed the one and not yet the
\* other.
C19_NoHalfDoneObserved ==
    [][\A i \in TaskIds :
          (ReadRing(i) \/ ReadNodes(i)) => ~ \E j \in TaskIds : HalfDone(j)]_vars

\* the tasks that hold the ring for writing, and for reading
RingWriting ==
    {i \in TaskIds :
        \/ tasks[i].kind \in Writers /\ tasks[i].pc = "ring"
        \/ tasks[i].kind = "handshake" /\ tasks[i].pc \in {"mid", "reg"}}
RingReading == {i \in TaskIds : tasks[i].kind = "reader" /\ tasks[i].pc = "rread"}

\* the ring the tasks started from, and the rings the same operations make of
\* it one after the other, in every order
Quiescent == \A i \in TaskIds : tasks[i].pc \in {"none", "done"}
WriterTasks == {i \in TaskIds : tasks[i].kind \in Writers}
Orders(S) ==
    {f \in [1..Cardinality(S) -> S] :
        \A a \in 1..Cardinality(S), b \in 1..Cardinality(S) : f[a] = f[b] => a = b}
RECURSIVE ApplyInOrder(_, _, _)
ApplyInOrder(ring, f, j) ==
    IF j > Len(f) THEN ring
    ELSE ApplyInOrder(RingOp(tasks[f[j]].kind, ring, tasks[f[j]].node), f, j + 1)
SerialRings ==
    {ApplyInOrder(RingAdd(<<>>, LocalNode(ConcNode)), f, 1) : f \in Orders(WriterTasks)}

\* C20: whatever the interleaving of handle_node_joined, handle_node_left and
\* handshake registrations, at most one task mutates the ring at a time and
\* none while the ring is read, and once all tasks are done the ring is the
\* one some sequential order of the same operations produces.
C20_RingOpsSerialize ==
    /\ Cardinality(RingWriting) <= 1
    /\ RingWriting # {} => RingReading = {}
    /\ Quiescent => hash_ring[ConcNode] \in SerialRings

\* a join, a leave and a handshake registration of the same node have all
\* run; the leave, started second, took the ring first and found nothing to
\* remove, so the node is on the ring twice
C20_Witness ==
    /\ Quiescent
    /\ tasks[1].kind = "joined" /\ tasks[2].kind = "left" /\ tasks[3].kind = "handshake"
    /\ Cardinality({j \in 1..Len(hash_ring[ConcNode]) :
                       hash_ring[ConcNode][j].node = NX}) = 2


(***************************************************************************)
(* Properties of the Message Processor and of send_message to the local    *)
(* node (checked under SpecProc).                                          *)
(***************************************************************************)
\* C21: the Message Processor handles one message per step, and it is the
\* message that was placed first on the channel: the others stay, in their
\* order, and only a FetchRequest at the head of the channel is answered.
C21_HandledInArrivalOrder ==
    [][\A q \in Procs :
          Process(q)
              => /\ chan'[q] = Tail(chan[q])
                 /\ response'[q] =
                        IF Head(chan[q])[2].type = "FetchRequest"
                        THEN FetchReply(Head(chan[q])[2].key)
                        ELSE response[q]]_vars

\* the request for one key has been answered while the request for the other
\* key, sent after it, still waits
C21_Witness ==
    /\ response[ProcNode] = FetchReply(<<109>>)
    /\ Len(chan[ProcNode]) = 1
    /\ chan[ProcNode][1][2] = FetchRequest(<<111>>)

C24_BindFailureStandsAlone ==
    \A p \in Members :
        initpc[p] = "failed"
            => /\ nodes[p] = {} /\ peers[p] = <<>> /\ todo[p] = <<>>
               /\ hash_ring[p] = RingAdd(<<>>, LocalNode(p))
               /\ ~ listening[p] /\ hist = <<>>
               /\ call[p] = Idle /\ conn[p] = NoConn
               /\ last_call.proc = p
                     => /\ last_call.owner = NoNode /\ last_call.sendres = "none"
                        /\ last_call.op = "get"
                              => last_call.value = StoreGet(cache[p], last_call.key)
                        /\ last_call.op = "insert"
                              => StoreGet(cache[p], last_call.key) = last_call.value

\* a node configured with seeds failed to bind, stored a value on its own and
\* read it back
C24_Witness ==
    \E p \in Members :
        /\ initpc[p] = "failed" /\ seeds[p] # <<>>
        /\ last_call.proc = p /\ last_call.op = "get" /\ last_call.res = "Some"


(***************************************************************************)
(* Properties of a FastbuCache with failing saves, a poisoned lock and     *)
(* restarts (checked under SpecDisk).                                      *)
(***************************************************************************)
\* C26: with the lock of the local store poisoned, an insert and a get both
\* return the failure to the caller, an error or an absent value: neither
\* panics.
C26_PoisonedLockIsReported ==
    [][\A p \in Procs :
          (poisoned[p] /\ calls' = calls + 1 /\ last_call'.proc = p)
              => /\ last_call'.op = "insert" => last_call'.res = "Err"
                 /\ last_call'.op = "get" => last_call'.res = "None"]_vars


(***************************************************************************)
(* Properties of Nodes with metadata (checked under SpecRing).             *)
(***************************************************************************)
SameIdentity(a, b) ==
    a.id = b.id /\ a.host = b.host /\ a.port = b.port /\ a.api_port = b.api_port

EntriesOf(ring, n) == {j \in 1..Len(ring) : SameIdentity(ring[j].node, n)}

\* a node leaves while the ring holds a Node of its identity with other
\* metadata: the entry stands at the leaving node's hash and is the one removed
C27_RingIgnoresMetadata ==
    \A i \in 1..Len(hist) :
        hist[i].kind = "left" =>
            \A j \in EntriesOf(hist[i].before, hist[i].node) :
                MetadataOf(hist[i].before[j].node) # MetadataOf(hist[i].node) =>
                    /\ hist[i].before[j].key = NodeHash(hist[i].node)
                    /\ Cardinality(EntriesOf(hist[i].before, hist[i].node)) = 1
                           => EntriesOf(hist[i].after, hist[i].node) = {}

\* C27: two Nodes that agree on id, host, port and api_port and differ in
\* metadata are equal, hash identically and have one ring position: when one
\* is on the ring and the other leaves, the two are equal, the entry's
\* position is the leaving node's hash, and the ring is left without the node.
C27_MetadataIsNotIdentity ==
    /\ C27_RingIgnoresMetadata
    /\ \A i \in 1..Len(hist) :
           hist[i].kind = "left" =>
               \A j \in EntriesOf(hist[i].before, hist[i].node) :
                   NodeEq(hist[i].before[j].node, hist[i].node)


\* C28: every node on the ring occupies as many ring positions as the
\* configuration's virtual_nodes says.
C28_VirtualNodesPerNode ==
    \A p \in Procs : \A n \in RingNodes(hash_ring[p]) :
        Cardinality({j \in 1..Len(hash_ring[p]) : hash_ring[p][j].node = n})
            = virtual_nodes[p]


(***************************************************************************)
(* Properties of a FastbuCache whose saves succeed (checked under          *)
(* SpecStore).                                                             *)
(***************************************************************************)
\* C29: for a FastbuCache on its own whose inserts all succeeded, get(k)
\* returns the value inserted last for k, and nothing for a key that was never
\* inserted.
C29_GetReturnsLastInsert ==
    (last_call.op = "get" /\ last_call.proc = StoreNode) =>
        /\ last_call.value = last_ok[StoreNode][last_call.key]
        /\ last_call.res = OptRes(last_call.value)
        /\ disk[StoreNode][last_call.key] = <<>> <=> last_call.res = "None"
        /\ disk[StoreNode][last_call.key] # <<>> =>
               last_call.value
                   = disk[StoreNode][last_call.key][Len(disk[StoreNode][last_call.key])]

\* a key was inserted twice, with two values, and the get returned the second
C29_Witness ==
    /\ last_call.op = "get" /\ last_call.proc = StoreNode
    /\ disk[StoreNode][last_call.key] = << <<117>>, <<118>> >>
    /\ last_call.res = "Some" /\ last_call.value = <<118>>


(***************************************************************************)
(* Properties of a restart (checked under SpecDisk).                       *)
(***************************************************************************)
\* the value the key's file holds last
StoredValue(d, k) == d[k][Len(d[k])]

\* C30: a value stored with insert is returned by get on a FastbuCache created
\* afterwards: for every key with a saved value, get on the new instance
\* returns the value saved last.
C30_ContentSurvivesRestart ==
    [][CacheNew(StoreNode) =>
          \A k \in Keys :
              disk[StoreNode][k] # <<>> =>
                  /\ GetOutcome(poisoned'[StoreNode], StoreGet(cache'[StoreNode], k)) = "Some"
                  /\ StoreGet(cache'[StoreNode], k) = StoredValue(disk'[StoreNode], k)]_vars


(***************************************************************************)
(* Properties of send_message's deliveries (checked under SpecProc).       *)
(***************************************************************************)
\* the messages that wait in the channels of all processes
Waiting(ch) == Len(ch["A"]) + Len(ch["B"])

C32_RemoteGet ==
    [][\A p \in Procs :
          /\ (call[p].op = "get" /\ call[p].pc \in {"fetch", "direct"} /\ call'[p] = Idle)
                 => /\ last_call'.proc = p /\ last_call'.key = call[p].key
                    /\ last_call'.res = OptRes(last_call'.value)
                    /\ StoreGet(cache[p], call[p].key) # None
                           => /\ call[p].pc = "fetch"
                              /\ last_call'.value = StoreGet(cache[p], call[p].key)
                    /\ (call[p].pc = "fetch" /\ StoreGet(cache[p], call[p].key) = None)
                           => conn[p] = "err" /\ last_call'.res = "None"
                    /\ (call[p].pc = "direct"
                        /\ \E q \in ProcsAt(AddrOf(call[p].target)) : ~listening[q])
                           => last_call'.res = "None"
                    /\ call[p].pc = "direct"
                           => /\ ParseDirect(NotFound) = None
                              /\ ParseDirect(Silent) = None
                              /\ ParseDirect(<<>>) = None
          /\ (call'[p].pc = "direct" /\ call[p].pc # "direct")
                 => /\ call[p].pc = "fetch" /\ conn[p] = "ack"
                    /\ StoreGet(cache[p], call[p].key) = None]_vars

\* the owner acknowledged the FetchRequest and the get returned the value the
\* local store held
C32_Witness ==
    /\ last_call.op = "get" /\ last_call.sendres = "ok" /\ last_call.res = "Some"
    /\ last_call.owner = NX
    /\ last_call.value = StoreGet(cache[last_call.proc], last_call.key)

(***************************************************************************)
(* Properties of a forwarded insert (checked under Spec).                  *)
(***************************************************************************)
\* C33: an insert whose key the ring gives to a remote node and whose
\* KeyUpdated send was acknowledged returns success, and from its start to its
\* return the local store, in memory and on disk, stays as it was.
C33_ForwardedInsertLeavesStore ==
    [][\A p \in Procs :
          /\ (call[p].pc = "fwd" /\ conn[p] = "ack" /\ call'[p] = Idle)
                 => /\ last_call'.proc = p /\ last_call'.op = "insert"
                    /\ last_call'.res = "Ok" /\ last_call'.sendres = "ok"
                    /\ last_call'.owner.id # LocalNode(p).id
          /\ ((call[p].pc = "fwd" \/ call'[p].pc = "fwd")
              /\ ~(conn[p] = "err" /\ call'[p] = Idle))
                 => cache'[p] = cache[p] /\ disk'[p] = disk[p]]_vars

\* a forwarded insert returned success for a key the local store does not hold
C33_Witness ==
    /\ last_call.op = "insert" /\ last_call.sendres = "ok" /\ last_call.res = "Ok"
    /\ last_call.owner = NX
    /\ StoreGet(cache[last_call.proc], last_call.key) = None


\* C34: a seed peer whose connection, handshake write, handshake read or Node
\* decoding failed or timed out is skipped: the step of initialize that tries
\* it changes neither the ring nor the registry, and a step of initialize that
\* does change them adds the Node a peer answered.
C34_FailedPeerNotAdded ==
    [][\A p \in Members :
          (initpc[p] = "peers" /\ todo[p] # <<>> /\ todo'[p] = Tail(todo[p]))
             => /\ \A a \in PeerAnswers :
                     (a.kind # "node" /\ InitPeerEnv(p, a))
                        => /\ hash_ring'[p] = hash_ring[p]
                           /\ nodes'[p] = nodes[p]
                           /\ hist' = hist
                /\ hash_ring'[p] # hash_ring[p] \/ nodes'[p] # nodes[p]
                     => \E n \in EnvNodes :
                           /\ hash_ring'[p] = RingAdd(hash_ring[p], n)
                           /\ nodes'[p] = RegInsert(nodes[p], n)]_vars

\* initialize has returned after two seeds: one answered its Node and was
\* joined, the other failed and is neither on the ring nor in the registry
C34_Witness ==
    \E p \in Members :
        /\ initpc[p] = "done" /\ seeds[p] = <<AddrOf(NX), AddrOf(NB2)>>
        /\ Len(hist) = 1 /\ hist[1].kind = "joined" /\ hist[1].node = NX
        /\ RingNodes(hash_ring[p]) = {LocalNode(p), NX}
        /\ nodes[p] = {LocalNode(p), NX}


\* C35: initialize creates the Message Processor channel before the listener
\* accepts its first connection: a node that listens has its channel, and every
\* connection the listener handles (a handshake it registers, a message it
\* forwards) is handled by a node that has the channel to forward to.
C35_ChannelBeforeListener ==
    /\ [](\A p \in Procs : listening[p] => message_sender[p])
    /\ [][\A q \in Procs :
             /\ Len(chan'[q]) > Len(chan[q]) => message_sender[q]
             /\ (hist' # hist /\ hist'[Len(hist')].kind = "handshake"
                 /\ hist'[Len(hist')].proc = q) => message_sender[q]]_vars

\* the listener has forwarded a message of a connection to the channel
C35_Witness ==
    \E q \in Procs :
        /\ listening[q] /\ message_sender[q]
        /\ chan[q] # <<>> /\ chan[q][1][1] = Placeholder


\* one await point of a task
TaskStep(i) ==
    \/ AcquireRingWrite(i) \/ RingStep(i) \/ AcquireNodesWrite(i) \/ RegStep(i)
    \/ AcquireRingRead(i) \/ ReadRing(i) \/ AcquireNodesRead(i) \/ ReadNodes(i)

\* the tasks that hold a guard of the ring, of the registry
HoldsRing(i) == i \in locks.ring_w \cup locks.ring_r
HoldsNodes(i) == i \in locks.nodes_w \cup locks.nodes_r

\* C37: the locks of the ring and of the registry never deadlock.  A task that
\* waits for the ring lock holds no guard at all; a task that holds a registry
\* guard waits for no lock; a task that holds both took the ring first (it is
\* a handshake registration under its registry guard); and as long as a task
\* has not finished, some task can take its next step.
C37_NoLockDeadlock ==
    /\ \A i \in TaskIds :
          /\ tasks[i].pc \in {"none", "start", "done"} => ~HoldsRing(i) /\ ~HoldsNodes(i)
          /\ HoldsNodes(i) => tasks[i].pc \in {"reg", "nread"}
          /\ tasks[i].pc = "mid" => ~HoldsNodes(i)
          /\ (HoldsRing(i) /\ HoldsNodes(i))
                => tasks[i].kind = "handshake" /\ tasks[i].pc = "reg"
    /\ (\E i \in TaskIds : tasks[i].pc \notin {"none", "done"})
          => \E i \in TaskIds : ENABLED TaskStep(i)

\* a handshake registration holds the ring guard and the registry guard while
\* one task waits for the ring lock and another, past the ring, for the
\* registry lock
C37_Witness ==
    \E i, j, k \in TaskIds :
        /\ tasks[i].kind = "handshake" /\ tasks[i].pc = "reg"
        /\ i \in locks.ring_w /\ i \in locks.nodes_w
        /\ tasks[j].pc = "start" /\ tasks[j].kind \in Writers \cup {"reader"}
        /\ tasks[k].pc = "mid" /\ tasks[k].kind \in {"joined", "left"}


(***************************************************************************)
(* Properties of an insert whose save failed (checked under SpecDisk).     *)
(***************************************************************************)
\* C39: when FastbuCache::insert returns an error because the save failed, the
\* map holds the new value although the disk does not, and a get of the key
\* that follows returns it: a get answers from the map alone.
C39_FailedSaveKeepsMemory ==
    [][\A k \in Keys, v \in Values :
          /\ CacheInsert(StoreNode, k, v, FALSE) /\ ~poisoned[StoreNode]
                => /\ last_call'.res = "Err"
                   /\ disk'[StoreNode] = disk[StoreNode]
                   /\ StoreGet(cache'[StoreNode], k) = v
                   /\ GetOutcome(poisoned'[StoreNode], StoreGet(cache'[StoreNode], k))
                          = "Some"
          /\ CacheGet(StoreNode, k)
                => /\ last_call'.res
                          = GetOutcome(poisoned[StoreNode], StoreGet(cache[StoreNode], k))
                   /\ ~poisoned[StoreNode]
                          => last_call'.value = StoreGet(cache[StoreNode], k)]_vars

\* the only insert of the key returned an error, nothing of the key is on the
\* disk, and the get that followed returned the value
C39_Witness ==
    /\ last_call.op = "get" /\ last_call.proc = StoreNode
    /\ last_call.res = "Some" /\ last_call.value = <<118>>
    /\ disk[StoreNode][last_call.key] = <<>>
    /\ calls = 2 /\ ~poisoned[StoreNode]


(***************************************************************************)
(* Properties of a node that leaves (checked under SpecMember).            *)
(***************************************************************************)
\* C40: after handle_node_left(n) has completed, get_responsible_node returns
\* n for no key, also when n had been added to the ring more than once.
C40_LeftNodeOwnsNothing ==
    \A i \in 1..Len(hist) :
        hist[i].kind = "left"
            => \A k \in Keys : GetResponsibleNode(hist[i].after, k) # hist[i].node


(***************************************************************************)
(* Properties of the channel at its capacity (checked under SpecQueue).    *)
(***************************************************************************)
\* C38: the channel never holds more than 100 messages; the Message Processor
\* can always take the message that waits first, whatever the message and
\* however full the channel; so the channel does not stay filled while the
\* processor rests (it handles message after message, in the order of the
\* channel, for as long as one waits), and a full channel gets room again.
C38_ChannelBoundedAndDrained ==
    /\ [](\A q \in Procs : Len(chan[q]) <= ChannelCap)
    /\ [](\A q \in Procs : (message_sender[q] /\ chan[q] # <<>>) => ENABLED Process(q))
    /\ []<>(chan[ProcNode] = <<>>) \/ []<><<Process(ProcNode)>>_vars
    /\ (Len(chan[ProcNode]) = ChannelCap) ~> (Len(chan[ProcNode]) < ChannelCap)

\* the channel is full: the next sender waits
C38_Witness ==
    /\ message_sender[ProcNode]
    /\ Len(chan[ProcNode]) = ChannelCap
    /\ ~ ENABLED ProcessMessage(ProcNode, LocalNode(ProcNode), KeyInvalidated(<<109>>))


(***************************************************************************)
(* Properties of gets where nothing was inserted (checked under SpecFetch). *)
(***************************************************************************)
\* C36: when ClusterCache::get returns a value for a key, an insert of that
\* value under that key was issued before: where no client ever inserts, no
\* get returns a value.
C36_GetReturnsInsertedValue ==
    (last_call.op = "get" /\ last_call.res = "Some")
        => \E p \in Procs :
              \/ StoreGet(cache[p], last_call.key) = last_call.value
              \/ \E j \in 1..Len(disk[p][last_call.key]) :
                    disk[p][last_call.key][j] = last_call.value

====
